---- MODULE Spec2Model ----
(***************************************************************************)
(* Model of verify_mobile.py: a linear script that launches a headless     *)
(* browser, visits three routes, captures one screenshot per route,        *)
(* inspects one input on the settings page and closes the browser in a     *)
(* finally clause.  Every library call may raise; control then follows     *)
(* Python's try / except Exception / finally and with-statement rules.     *)
(***************************************************************************)
EXTENDS Integers, Sequences, FiniteSets

VARIABLES pc, exc, raised, browser, closeCount, files, stdout, steps,
          elem, visible, font_size, run, completed, exitStatus

vars == <<pc, exc, raised, browser, closeCount, files, stdout, steps,
          elem, visible, font_size, run, completed, exitStatus>>

\* Number of consecutive invocations of the script that are explored.
MaxRuns == 2

Routes == {"home", "settings", "results"}

\* State of the first input[type="number"] of the settings document.
ElemStates == {"absent", "hidden", "visible"}

\* Values getComputedStyle(el).fontSize may yield.
FontSizes == {"16px", "12px"}

\* Python exception classes: playwright errors derive from Exception,
\* KeyboardInterrupt / SystemExit derive from BaseException only.
RaiseKinds == {"Exception", "BaseException"}

P(op, route) == [op |-> op, route |-> route]

NoExc == [kind |-> "none", op |-> "", route |-> ""]

Msg(text, route, detail) == [text |-> text, route |-> route, detail |-> detail]

\* Names of the image files, as passed to page.screenshot(path=...).
FixedNames == {"verification_home.png", "verification_settings.png",
               "verification_results.png"}

\* Every name a file in the working directory may have in the model.
AllNames == FixedNames \cup {"verification.png"}

ScreenshotPathShared(route) == "verification.png"

ScreenshotPath(route) ==
    CASE route = "home"     -> "verification_home.png"
      [] route = "settings" -> "verification_settings.png"
      [] route = "results"  -> "verification_results.png"

WriteFileNoOverwrite(f, name, content) ==
    [n \in DOMAIN f |-> IF n = name /\ f[n] = 0 THEN content ELSE f[n]]

WriteFileClean(f, name, content) ==
    [n \in DOMAIN f |-> IF n = name THEN content ELSE 0]

\* page.screenshot(path=name) creates the file or replaces its content.
\* A file's content is the number of the run that captured it, 0 = no file.
WriteFile(f, name, content) ==
    [n \in DOMAIN f |-> IF n = name THEN content ELSE f[n]]

\* The statements inside the try block.
TryOps == {"goto", "sleep", "screenshot", "print_taken",
           "locate", "is_visible", "evaluate", "print_font"}

InspectionOps == {"locate", "is_visible", "evaluate", "print_font"}

InTry(op) == op \in TryOps

CatchesNone(kind) == FALSE

\* except Exception as e
Catches(kind) == kind = "Exception"

\* The statement that follows the inspection block.
AfterInspection == P("goto", "results")

AfterTakenSkipSettings(route) ==
    CASE route = "home"     -> P("locate", "")
      [] route = "settings" -> P("goto", "results")
      [] route = "results"  -> P("finally", "")

\* The statement that follows print("<Route> screenshot taken.").
AfterTaken(route) ==
    CASE route = "home"     -> P("goto", "settings")
      [] route = "settings" -> P("locate", "")
      [] route = "results"  -> P("finally", "")

\* The statement executed after p completes normally (the branch on
\* is_visible() is decided in IsVisible).
Succ(p) ==
    CASE p.op = "with_enter"  -> P("devices", "")
      [] p.op = "devices"     -> P("launch", "")
      [] p.op = "launch"      -> P("new_context", "")
      [] p.op = "new_context" -> P("new_page", "")
      [] p.op = "new_page"    -> P("goto", "home")
      [] p.op = "goto"        -> P("sleep", p.route)
      [] p.op = "sleep"       -> P("screenshot", p.route)
      [] p.op = "screenshot"  -> P("print_taken", p.route)
      [] p.op = "print_taken" -> AfterTaken(p.route)
      [] p.op = "locate"      -> P("is_visible", "")
      [] p.op = "evaluate"    -> P("print_font", "")
      [] p.op = "print_font"  -> AfterInspection
      [] OTHER                -> P("finally", "")

HandlerNoFinally(p, kind) ==
    IF InTry(p.op) /\ Catches(kind) THEN P("except", "")
    ELSE IF p.op = "with_enter" THEN P("exit", "")
    ELSE P("with_exit", "")

HandlerResume(p, kind) ==
    IF InTry(p.op) THEN Succ(p)
    ELSE IF p.op = "with_enter" THEN P("exit", "")
    ELSE P("with_exit", "")

HandlerIsolatedInspection(p, kind) ==
    IF p.op \in {"is_visible", "evaluate"} THEN P("goto", "results")
    ELSE IF InTry(p.op)
         THEN (IF Catches(kind) THEN P("except", "") ELSE P("finally", ""))
    ELSE IF p.op = "with_enter" THEN P("exit", "")
    ELSE P("with_exit", "")

\* Where control goes when statement p raises an exception of class kind:
\* inside the try block to the except clause if it matches, otherwise to
\* the finally clause; outside the try block out of the with statement
\* (or straight out of the function when the with was never entered).
Handler(p, kind) ==
    IF InTry(p.op)
    THEN (IF Catches(kind) THEN P("except", "") ELSE P("finally", ""))
    ELSE IF p.op = "with_enter" THEN P("exit", "")
    ELSE P("with_exit", "")

VisibleResultAttached(v) == v # "absent"

\* Locator.is_visible(): TRUE only for an existing, visible element.
VisibleResult(v) == v = "visible"

Init ==
    /\ pc = P("with_enter", "")
    /\ exc = NoExc
    /\ raised = NoExc
    /\ browser = "none"
    /\ closeCount = 0
    /\ files = [n \in AllNames |-> 0]
    /\ stdout = << >>
    /\ steps = << >>
    /\ elem = "absent"
    /\ visible = FALSE
    /\ font_size = ""
    /\ run = 1
    /\ completed = << >>
    /\ exitStatus = -1

\* The current statement raises an exception of class kind.
Raise(kind) ==
    /\ exc' = [kind |-> kind, op |-> pc.op, route |-> pc.route]
    /\ raised' = exc'
    /\ pc' = Handler(pc, kind)

Return ==
    /\ pc' = Succ(pc)
    /\ UNCHANGED <<exc, raised>>

Called == steps' = Append(steps, pc)

\* with sync_playwright() as p:
WithEnter ==
    /\ pc.op = "with_enter"
    /\ Called
    /\ \/ Return
       \/ \E k \in RaiseKinds : Raise(k)
    /\ UNCHANGED <<browser, closeCount, files, stdout, elem, visible,
                   font_size, run, completed, exitStatus>>

\* iphone_12 = p.devices['iPhone 12']
Devices ==
    /\ pc.op = "devices"
    /\ Called
    /\ Return
    /\ UNCHANGED <<browser, closeCount, files, stdout, elem, visible,
                   font_size, run, completed, exitStatus>>

\* browser = p.chromium.launch(headless=True)
Launch ==
    /\ pc.op = "launch"
    /\ Called
    /\ \/ Return /\ browser' = "open"
       \/ (\E k \in RaiseKinds : Raise(k)) /\ UNCHANGED browser
    /\ UNCHANGED <<closeCount, files, stdout, elem, visible,
                   font_size, run, completed, exitStatus>>

\* context = browser.new_context(**iphone_12)
NewContext ==
    /\ pc.op = "new_context"
    /\ Called
    /\ \/ Return
       \/ \E k \in RaiseKinds : Raise(k)
    /\ UNCHANGED <<browser, closeCount, files, stdout, elem, visible,
                   font_size, run, completed, exitStatus>>

\* page = context.new_page()
NewPage ==
    /\ pc.op = "new_page"
    /\ Called
    /\ \/ Return
       \/ \E k \in RaiseKinds : Raise(k)
    /\ UNCHANGED <<browser, closeCount, files, stdout, elem, visible,
                   font_size, run, completed, exitStatus>>

\* page.goto("http://localhost:5173/<route>")
Goto(route) ==
    /\ pc = P("goto", route)
    /\ Called
    /\ \/ Return
       \/ \E k \in RaiseKinds : Raise(k)
    /\ UNCHANGED <<browser, closeCount, files, stdout, elem, visible,
                   font_size, run, completed, exitStatus>>

\* time.sleep(2)
Sleep(route) ==
    /\ pc = P("sleep", route)
    /\ Called
    /\ \/ Return
       \/ \E k \in RaiseKinds : Raise(k)
    /\ UNCHANGED <<browser, closeCount, files, stdout, elem, visible,
                   font_size, run, completed, exitStatus>>

\* page.screenshot(path="verification_<route>.png")
Screenshot(route) ==
    /\ pc = P("screenshot", route)
    /\ Called
    /\ \/ Return /\ files' = WriteFile(files, ScreenshotPath(route), run)
       \/ (\E k \in RaiseKinds : Raise(k)) /\ UNCHANGED files
    /\ UNCHANGED <<browser, closeCount, stdout, elem, visible,
                   font_size, run, completed, exitStatus>>

\* print("<Route> screenshot taken.")
PrintTaken(route) ==
    /\ pc = P("print_taken", route)
    /\ Called
    /\ Return
    /\ stdout' = Append(stdout, Msg("screenshot taken.", route, ""))
    /\ UNCHANGED <<browser, closeCount, files, elem, visible,
                   font_size, run, completed, exitStatus>>

\* input_el = page.locator('input[type="number"]').first
Locate ==
    /\ pc.op = "locate"
    /\ Called
    /\ Return
    /\ UNCHANGED <<browser, closeCount, files, stdout, elem, visible,
                   font_size, run, completed, exitStatus>>

\* if input_el.is_visible():
\* v is the state of the element in the document at the moment of the call.
IsVisible ==
    /\ pc.op = "is_visible"
    /\ Called
    /\ \E v \in ElemStates :
         /\ elem' = v
         /\ \/ /\ visible' = VisibleResult(v)
               /\ pc' = IF visible' THEN P("evaluate", "") ELSE AfterInspection
               /\ UNCHANGED <<exc, raised>>
            \/ (\E k \in RaiseKinds : Raise(k)) /\ UNCHANGED visible
    /\ UNCHANGED <<browser, closeCount, files, stdout,
                   font_size, run, completed, exitStatus>>

\* font_size = input_el.evaluate("el => window.getComputedStyle(el).fontSize")
Evaluate ==
    /\ pc.op = "evaluate"
    /\ Called
    /\ \/ Return /\ \E fs \in FontSizes : font_size' = fs
       \/ (\E k \in RaiseKinds : Raise(k)) /\ UNCHANGED font_size
    /\ UNCHANGED <<browser, closeCount, files, stdout, elem, visible,
                   run, completed, exitStatus>>

\* print(f"Input font size: {font_size}")
PrintFontSize ==
    /\ pc.op = "print_font"
    /\ Called
    /\ Return
    /\ stdout' = Append(stdout, Msg("Input font size: ", "", font_size))
    /\ UNCHANGED <<browser, closeCount, files, elem, visible,
                   font_size, run, completed, exitStatus>>

\* except Exception as e: print(f"Error: {e}")
ExceptHandler ==
    /\ pc.op = "except"
    /\ stdout' = Append(stdout, Msg("Error: ", exc.route, exc.op))
    /\ exc' = NoExc
    /\ pc' = P("finally", "")
    /\ UNCHANGED <<raised, browser, closeCount, files, steps, elem, visible,
                   font_size, run, completed, exitStatus>>

\* finally: browser.close()
Finally ==
    /\ pc.op = "finally"
    /\ browser' = "closed"
    /\ closeCount' = closeCount + 1
    /\ pc' = P("with_exit", "")
    /\ UNCHANGED <<exc, raised, files, stdout, steps, elem, visible,
                   font_size, run, completed, exitStatus>>

\* Leaving the with block stops playwright; a browser that is still open
\* loses its driver.  A pending exception keeps propagating.
WithExit ==
    /\ pc.op = "with_exit"
    /\ browser' = IF browser = "open" THEN "terminated" ELSE browser
    /\ pc' = P("exit", "")
    /\ UNCHANGED <<exc, raised, closeCount, files, stdout, steps, elem,
                   visible, font_size, run, completed, exitStatus>>

\* if __name__ == "__main__": verify_mobile()
\* verify_mobile has returned or an exception has left it; the process ends.
ProcessExit ==
    /\ pc.op = "exit"
    /\ exitStatus' = IF exc.kind = "none" THEN 0 ELSE 1
    /\ completed' = Append(completed, raised.kind = "none")
    /\ pc' = P("done", "")
    /\ UNCHANGED <<exc, raised, browser, closeCount, files, stdout, steps,
                   elem, visible, font_size, run>>

\* The script is invoked again in the same working directory.
Rerun ==
    /\ pc.op = "done"
    /\ run < MaxRuns
    /\ run' = run + 1
    /\ pc' = P("with_enter", "")
    /\ exc' = NoExc
    /\ raised' = NoExc
    /\ browser' = "none"
    /\ closeCount' = 0
    /\ stdout' = << >>
    /\ steps' = << >>
    /\ elem' = "absent"
    /\ visible' = FALSE
    /\ font_size' = ""
    /\ exitStatus' = -1
    /\ UNCHANGED <<files, completed>>

Next ==
    \/ WithEnter
    \/ Devices
    \/ Launch
    \/ NewContext
    \/ NewPage
    \/ \E r \in Routes : Goto(r)
    \/ \E r \in Routes : Sleep(r)
    \/ \E r \in Routes : Screenshot(r)
    \/ \E r \in Routes : PrintTaken(r)
    \/ Locate
    \/ IsVisible
    \/ Evaluate
    \/ PrintFontSize
    \/ ExceptHandler
    \/ Finally
    \/ WithExit
    \/ ProcessExit
    \/ Rerun

Spec == Init /\ [][Next]_vars
(***************************************************************************)
(* Observations used by the properties.                                    *)
(***************************************************************************)
Has(s) == \E i \in DOMAIN steps : steps[i] = s

Done == pc.op = "done"

Left == pc.op \in {"exit", "done"}

FailedInTry == raised.kind # "none" /\ InTry(raised.op)

FileOf(route) ==
    CASE route = "home"     -> "verification_home.png"
      [] route = "settings" -> "verification_settings.png"
      [] route = "results"  -> "verification_results.png"

Existing == {n \in DOMAIN files : files[n] # 0}

IsConfirmation(m) == m.text = "screenshot taken."

IsError(m) == m.text = "Error: "

IsFontMessage(m) == m.text = "Input font size: "

IsRouteStep(s) == s.op \in {"goto", "sleep", "screenshot", "print_taken"}

IsInspectionStep(s) == s.op \in InspectionOps

Confirmations == SelectSeq(stdout, IsConfirmation)

Errors == SelectSeq(stdout, IsError)

FontPrinted == \E i \in DOMAIN stdout : IsFontMessage(stdout[i])

Inspected == Has(P("is_visible", ""))

\* The screenshot of route was written by this run.
Written(route) ==
    /\ Has(P("screenshot", route))
    /\ ~(raised.op = "screenshot" /\ raised.route = route)

RouteBlock(r) ==
    <<P("goto", r), P("sleep", r), P("screenshot", r), P("print_taken", r)>>

\* C1: in every run that reaches the verification steps, browser.close()
\* has been executed exactly once when verify_mobile is left, whether the
\* steps succeeded or one of them raised; it is never executed twice.
C1_ClosedExactlyOnce ==
    /\ closeCount <= 1
    /\ (Left /\ Has(P("goto", "home"))) => (closeCount = 1 /\ browser = "closed")

C1_Witness ==
    /\ Done
    /\ raised.op = "goto" /\ raised.route = "home"
    /\ closeCount = 1

\* C2 as stated: whatever exception a step of the try block raises, one
\* error message is printed, nothing propagates and the process exits 0.
C2_AnyExceptionCaught ==
    (Done /\ FailedInTry) =>
        (Len(Errors) = 1 /\ exc = NoExc /\ exitStatus = 0)

\* C2 amended: when a step of the try block raises an exception that is an
\* instance of Exception, exactly one error message naming it is printed,
\* it is not re-raised and the process exits with status 0, as a run
\* without failure does.
C2_ExceptionCaught ==
    /\ (Left /\ FailedInTry /\ raised.kind = "Exception") =>
          /\ Errors = <<Msg("Error: ", raised.route, raised.op)>>
          /\ exc = NoExc
    /\ (Done /\ FailedInTry /\ raised.kind = "Exception") => exitStatus = 0
    /\ (Done /\ raised.kind = "none") => (exitStatus = 0 /\ Errors = << >>)

C2_Witness ==
    /\ Done
    /\ raised.kind = "Exception" /\ raised.op = "screenshot"
    /\ exitStatus = 0

\* C3: once a verification step has failed, the run performs no further
\* step (no navigation, wait, screenshot, inspection, confirmation or
\* retry) and writes no file; all that may follow is the error message
\* and the teardown.
C3_NoStepAfterFailure ==
    [][(FailedInTry /\ run' = run) =>
          /\ steps' = steps
          /\ files' = files
          /\ \/ stdout' = stdout
             \/ stdout' = Append(stdout, Msg("Error: ", raised.route, raised.op))
          /\ pc'.op \in {"except", "finally", "with_exit", "exit", "done"}]_vars

C3_Witness ==
    /\ Done
    /\ FailedInTry
    /\ raised.op = "sleep" /\ raised.route = "settings"
    /\ steps[Len(steps)] = P("sleep", "settings")

\* C4 as stated: the font-size message is printed exactly when the element
\* is visible at the check, and an absent or hidden element means a silent
\* skip followed by the navigation to /results.
C4_PrintedIffVisible ==
    (Done /\ Inspected) =>
        /\ FontPrinted <=> (elem = "visible")
        /\ (elem # "visible") =>
              (raised.op \notin InspectionOps /\ Has(P("goto", "results")))

\* C4 amended: the font-size message is printed exactly when the element is
\* visible at the check and neither the visibility check nor the font-size
\* evaluation raises; when the visibility check returns false (element
\* absent or hidden) the step is skipped silently: no font-size message,
\* no evaluation, no error from the inspection, and the run goes on to
\* navigate to /results.
C4_PrintedIffVisibleAndRead ==
    (Done /\ Inspected) =>
        /\ FontPrinted <=>
              (elem = "visible" /\ raised.op \notin {"is_visible", "evaluate"})
        /\ (elem # "visible" /\ raised.op # "is_visible") =>
              /\ ~FontPrinted
              /\ ~Has(P("evaluate", ""))
              /\ raised.op \notin InspectionOps
              /\ Has(P("goto", "results"))
        /\ \A i \in DOMAIN stdout :
              IsFontMessage(stdout[i]) => stdout[i].detail \in FontSizes

C4_Witness ==
    /\ Done
    /\ Inspected
    /\ elem = "hidden"
    /\ ~FontPrinted
    /\ Errors = << >>
    /\ Written("results")

\* C5: in a run without failure the three routes are handled once each, in
\* the order home, settings, results, each as navigate, wait, capture,
\* confirmation; at the end all three files hold this run's capture and
\* exactly three confirmations were printed.  A confirmation is never
\* printed before its screenshot was written.
C5_SuccessfulRun ==
    /\ (Done /\ raised.kind = "none") =>
          /\ SelectSeq(steps, IsRouteStep) =
                RouteBlock("home") \o RouteBlock("settings") \o RouteBlock("results")
          /\ files["verification_home.png"] = run
          /\ files["verification_settings.png"] = run
          /\ files["verification_results.png"] = run
          /\ Confirmations = <<Msg("screenshot taken.", "home", ""),
                               Msg("screenshot taken.", "settings", ""),
                               Msg("screenshot taken.", "results", "")>>
          /\ closeCount = 1
    /\ \A i \in DOMAIN stdout :
          IsConfirmation(stdout[i]) => files[FileOf(stdout[i].route)] = run

C5_Witness ==
    /\ Done
    /\ raised.kind = "none"
    /\ Len(Confirmations) = 3
    /\ FontPrinted

\* C6: a screenshot written earlier in the run survives a later failure:
\* after any step fails, every file this run has written still holds this
\* run's capture, and no file the run has not captured holds it.
C6_EarlierScreenshotsKept ==
    raised.kind # "none" =>
        \A r \in Routes :
            /\ Written(r) => files[FileOf(r)] = run
            /\ ~Written(r) => files[FileOf(r)] # run

C6_Witness ==
    /\ Done
    /\ raised.route = "results"
    /\ files["verification_home.png"] = run
    /\ files["verification_settings.png"] = run
    /\ files["verification_results.png"] # run

\* C7: runs overwrite and never accumulate: the files ever created are
\* among the three fixed names, each holds the capture of the latest run
\* that wrote it, and after a successful run (the first or a later one)
\* the files are exactly the three fixed names with that run's captures.
C7_Overwrites ==
    /\ Existing \subseteq FixedNames
    /\ \A n \in DOMAIN files : files[n] <= run
    /\ \A r \in Routes : Written(r) => files[FileOf(r)] = run
    /\ (Done /\ raised.kind = "none") =>
          (Existing = FixedNames /\ \A n \in FixedNames : files[n] = run)

C7_Witness ==
    /\ Done
    /\ run = 2
    /\ completed = <<TRUE, TRUE>>
    /\ \A n \in FixedNames : files[n] = 2

\* C8 as stated: the inspection starts right after the navigation to
\* /settings, with no wait, screenshot or confirmation in between.
C8_InspectionRightAfterGoto ==
    \A i \in DOMAIN steps :
        steps[i].op = "locate" => (i > 1 /\ steps[i - 1] = P("goto", "settings"))

\* C8 amended: the inspection takes place after the settings navigation,
\* its wait, the settings screenshot and the settings confirmation, right
\* after that confirmation, as one uninterrupted block, and before the
\* navigation to /results.
C8_InspectionAfterSettingsBlock ==
    \A i \in DOMAIN steps :
        /\ steps[i].op = "locate" =>
              /\ i > 4
              /\ SubSeq(steps, i - 4, i - 1) = RouteBlock("settings")
              /\ \A j \in 1..i : steps[j] # P("goto", "results")
        /\ (IsInspectionStep(steps[i]) /\ steps[i].op # "locate") =>
              (i > 1 /\ IsInspectionStep(steps[i - 1]))
        /\ steps[i] = P("goto", "results") =>
              (i > 1 /\ steps[i - 1].op \in {"is_visible", "print_font"})

C8_Witness ==
    /\ Has(P("print_font", ""))
    /\ Has(P("goto", "results"))

\* C9: if new_context or new_page raises after the launch succeeded,
\* browser.close() has been executed exactly once when the exception
\* leaves verify_mobile.
C9_ClosedAfterSetupFailure ==
    (Left /\ raised.op \in {"new_context", "new_page"}) => closeCount = 1

\* C10: when the visibility check or the font-size evaluation raises, the
\* run never navigates to /results and never writes the results
\* screenshot, although the home and settings screenshots and their
\* confirmations were produced; the results screenshot is written only in
\* runs whose inspection completed or was skipped without raising.
C10_InspectionFailureStopsRun ==
    /\ raised.op \in {"is_visible", "evaluate"} =>
          /\ ~Has(P("goto", "results"))
          /\ ~Has(P("screenshot", "results"))
          /\ files["verification_results.png"] # run
          /\ files["verification_home.png"] = run
          /\ files["verification_settings.png"] = run
          /\ Confirmations = <<Msg("screenshot taken.", "home", ""),
                               Msg("screenshot taken.", "settings", "")>>
    /\ files["verification_results.png"] = run =>
          (Inspected /\ raised.op \notin {"is_visible", "evaluate"})

C10_Witness ==
    /\ Done
    /\ raised.op = "evaluate"
    /\ elem = "visible"
    /\ files["verification_results.png"] # run

====
